---- MODULE Spec2Model ----
(***************************************************************************)
(* Remote relay controller (src/src/main.cpp): four channels, each wiring  *)
(* a pull-up pushbutton through a 50 ms debounce filter to a press handler *)
(* that flips a local boolean and sends it as a PUT request, and a value   *)
(* listener on the same default path to a status LED.                      *)
(*                                                                         *)
(* The handlers, the wiring and the per-channel storage are taken from     *)
(* main.cpp.  The debounce filter is a class of the SensESP framework; its *)
(* code is not part of the repository, and it is modelled here from the    *)
(* contract spec.md section 4.1 gives for it (Suppressed, DebounceSet,     *)
(* DebounceExpire).                                                        *)
(***************************************************************************)
EXTENDS Integers, Sequences, FiniteSets, TLC

\* ------------------------------------------------------------- constants
num_relays == 4
DebounceMs == 50

buttonPins == <<16, 17, 18, 19>>
statusLEDPins == <<12, 13, 14, 15>>

Relays == 1..num_relays
ButtonPinSet == {buttonPins[i] : i \in Relays}
LedPinSet == {statusLEDPins[i] : i \in Relays}

\* Paths are named by their index in default_sk_paths.
Paths == 1..num_relays
default_sk_paths == [i \in Relays |-> i]

\* --------------------------------------------------------------- bounds
\* Granularity of the clock, in ms.
TickMs == 10
\* Steps of one behaviour of Spec.
MaxSteps == 4
\* Caps of the history counters.
MaxRaw == 4
MaxPub == 2
\* The length of the press-release-press scenario, and the cap of its clock.
ScenarioMs == 30
MaxAge == 40

Min(a, b) == IF a < b THEN a ELSE b
Max(a, b) == IF a > b THEN a ELSE b

VARIABLES
    \* program and hardware state
    raw,            \* level of each button pin (TRUE = released, pull-up)
    debounced,      \* per channel: the value the debounce filter last accepted
    win,            \* per channel: ms left of the debounce window
    timer,          \* per channel: the window's expiry event is pending
    current_state,  \* per slot: *current_state, the Local Toggle State
    led,            \* level of each status LED pin
    put_path,       \* per channel: the path of its SKPutRequest (configurable)
    pending,        \* PUT requests sent and not yet answered or lost
    \* history
    ev,             \* the last event: kind, channel, value delivered to the
                    \* press handler (<<>> or <<v>>), PUT requests it issued
    lastRemote,     \* per channel: <<>> or <<v>>, the last remote update
    lastPut,        \* per channel: <<>> or <<v>>, the last value published
    nPub,           \* per channel: publishes issued, capped at MaxPub
    nRaw,           \* per channel: raw transitions, capped at MaxRaw
    age,            \* per channel: ms since the first raw transition, capped
    burst,          \* per channel: the first three raw transitions took at
                    \* most ScenarioMs in total
    quiet,          \* per channel: ms since the last raw transition, capped
    spaced,         \* per channel: every raw transition came >= 50 ms after
                    \* the one before
    sincePress,     \* per channel: ms since the last raw press, capped
    pressSpaced,    \* per channel: every press came >= 50 ms after the press
                    \* before
    odd,            \* per channel: the number of raw presses is odd
    clusterTog,     \* per channel: toggles since the current cluster of
                    \* presses began, capped at MaxPub
    steps,          \* events so far (bounds Spec)
    \* the remote system and the event loop
    wire,           \* per path: the PUT requests the server has yet to echo,
                    \* oldest first
    running         \* the callbacks the event loop has entered and that have
                    \* not returned

hw == <<raw, debounced, win, timer>>
prog == <<current_state, led, put_path, pending>>
hist == <<ev, lastRemote, lastPut, nPub, nRaw, age, burst, quiet, spaced,
          sincePress, pressSpaced, odd, clusterTog>>
loopv == <<wire, running>>
vars == <<hw, prog, hist, steps, loopv>>

\* ------------------------------------------------------ the code's parts
\* Mutant: one cell shared by all channels (a global or static bool).
SharedSlot(c) == 1

\* bool* current_state = new bool(false): one cell per loop iteration.
StateSlot(c) == c

\* Mutant: new bool(true).
InitiallyOn == TRUE

InitialState == FALSE

\* SKValueListener<bool>(sk_path, ...): the listener has no configuration
\* path and is not wrapped in a ConfigItem, so its path stays the default.
ListenPath(c) == default_sk_paths[c]

\* Mutant: the handler acts on every debounced edge (no if (!state)).
AnyEdge(state) == TRUE

\* if (!state): LOW is a press.
PressAccepted(state) == ~state

\* Mutant: the flip is missing.
NoToggle(cur) == cur

\* *current_state = !(*current_state)
Toggle(cur) == ~cur

\* Mutant: set() is called before the flip and sends the old value.
StalePut(c, cur) == <<[chan |-> c, path |-> put_path[c], val |-> cur]>>

\* Mutant: set() is called twice.
RetriedPut(c, cur) ==
    <<[chan |-> c, path |-> put_path[c], val |-> Toggle(cur)],
      [chan |-> c, path |-> put_path[c], val |-> Toggle(cur)]>>

\* sk_put_request->set(*current_state): the value after the flip, sent to
\* the put request's current path.
PutRequests(c, cur) == <<[chan |-> c, path |-> put_path[c], val |-> Toggle(cur)]>>

\* Mutant: status_led->set(!state).
InvertedLed(old, state) == ~state

\* status_led->set(state)
LedAfter(old, state) == state

\* The debounced-press lambda, given what the filter emitted (<<>>: nothing).
HandlerPuts(c, out) ==
    IF out # <<>> /\ PressAccepted(out[1])
    THEN PutRequests(c, current_state[StateSlot(c)])
    ELSE <<>>

\* Mutant: after set() the handler waits until no request of the channel is
\* outstanding, so a press finds it busy while an earlier request is unanswered.
AwaitingHandler(c, out) ==
    LET puts == HandlerPuts(c, out)
        hit == out # <<>> /\ PressAccepted(out[1])
    IN  /\ ~(hit /\ \E r \in pending : r.chan = c)
        /\ current_state' = IF hit
                            THEN [current_state EXCEPT ![StateSlot(c)] = Toggle(@)]
                            ELSE current_state
        /\ pending' = pending \cup {puts[k] : k \in DOMAIN puts}
        /\ lastPut' = IF puts # <<>>
                      THEN [lastPut EXCEPT ![c] = <<puts[Len(puts)].val>>]
                      ELSE lastPut
        /\ nPub' = [nPub EXCEPT ![c] = Min(@ + Len(puts), MaxPub)]

PressHandler(c, out) ==
    LET puts == HandlerPuts(c, out)
        hit == out # <<>> /\ PressAccepted(out[1])
    IN  /\ current_state' = IF hit
                            THEN [current_state EXCEPT ![StateSlot(c)] = Toggle(@)]
                            ELSE current_state
        /\ pending' = pending \cup {puts[k] : k \in DOMAIN puts}
        /\ lastPut' = IF puts # <<>>
                      THEN [lastPut EXCEPT ![c] = <<puts[Len(puts)].val>>]
                      ELSE lastPut
        /\ nPub' = [nPub EXCEPT ![c] = Min(@ + Len(puts), MaxPub)]

\* The two lambdas as functions of what a channel holds: its Local Toggle
\* State, its LED and the value it published last (<<>>: none).  The press
\* lambda captures sk_put_request and current_state, the listener lambda
\* captures status_led.
PressStep(c, s) ==
    LET puts == PutRequests(c, s.cur)
    IN  [cur |-> Toggle(s.cur), led |-> s.led, pub |-> <<puts[Len(puts)].val>>]

\* Mutant: the listener also stores the remote value in *current_state.
SyncingRemote(s, v) == [cur |-> v, led |-> v, pub |-> s.pub]

RemoteStep(s, v) == [cur |-> s.cur, led |-> LedAfter(s.led, v), pub |-> s.pub]

\* ----------------------------------------------------- debounce filter
\* spec.md 4.1: a transition within 50 ms of the prior accepted transition
\* is suppressed.
Suppressed(c) == timer[c] /\ win[c] > 0

\* What the filter emits for a new raw level v: the level itself when it is
\* accepted, nothing when it is suppressed.
DebounceSet(c, v) == IF Suppressed(c) THEN <<>> ELSE <<v>>

\* Mutant: the window closes without a delivery.
NoCloseDelivery(c) == <<>>

\* spec.md 4.1: last-stable-value-wins after the window closes.
DebounceExpire(c) ==
    IF raw[buttonPins[c]] # debounced[c] THEN <<raw[buttonPins[c]]>> ELSE <<>>

\* ------------------------------------------------------------------ Init
Init ==
    /\ raw = [p \in ButtonPinSet |-> TRUE]
    /\ debounced = [c \in Relays |-> TRUE]
    /\ win = [c \in Relays |-> 0]
    /\ timer = [c \in Relays |-> FALSE]
    /\ current_state = [c \in Relays |-> InitialState]
    /\ led = [p \in LedPinSet |-> FALSE]
    /\ put_path = [c \in Relays |-> default_sk_paths[c]]
    /\ pending = {}
    /\ ev = [kind |-> "init", chan |-> 0, out |-> <<>>, puts |-> <<>>]
    /\ lastRemote = [c \in Relays |-> <<>>]
    /\ lastPut = [c \in Relays |-> <<>>]
    /\ nPub = [c \in Relays |-> 0]
    /\ nRaw = [c \in Relays |-> 0]
    /\ age = [c \in Relays |-> 0]
    /\ burst = [c \in Relays |-> FALSE]
    /\ quiet = [c \in Relays |-> DebounceMs]
    /\ spaced = [c \in Relays |-> TRUE]
    /\ sincePress = [c \in Relays |-> DebounceMs]
    /\ pressSpaced = [c \in Relays |-> TRUE]
    /\ odd = [c \in Relays |-> FALSE]
    /\ clusterTog = [c \in Relays |-> 0]
    /\ steps = 0
    /\ wire = [p \in Paths |-> <<>>]
    /\ running = {}

\* ---------------------------------------------------------------- events
\* The history of the raw transitions of channel c, to level v.
RawHistory(c, v) ==
    /\ nRaw' = [nRaw EXCEPT ![c] = Min(@ + 1, MaxRaw)]
    /\ age' = [age EXCEPT ![c] = IF nRaw[c] = 0 THEN 0 ELSE @]
    /\ burst' = [burst EXCEPT ![c] = IF nRaw[c] = 2 THEN age[c] <= ScenarioMs ELSE @]
    /\ quiet' = [quiet EXCEPT ![c] = 0]
    /\ spaced' = [spaced EXCEPT ![c] = @ /\ quiet[c] >= DebounceMs]
    /\ sincePress' = IF v THEN sincePress ELSE [sincePress EXCEPT ![c] = 0]
    /\ pressSpaced' = IF v THEN pressSpaced
                      ELSE [pressSpaced EXCEPT ![c] = @ /\ sincePress[c] >= DebounceMs]
    /\ odd' = IF v THEN odd ELSE [odd EXCEPT ![c] = ~@]

\* A press less than 50 ms after the press before continues its cluster;
\* any other press begins a new one.
ClusterHistory(c, newPress, out) ==
    LET base == IF newPress /\ sincePress[c] >= DebounceMs THEN 0 ELSE clusterTog[c]
    IN  clusterTog' = [clusterTog EXCEPT
                         ![c] = Min(base + Len(HandlerPuts(c, out)), MaxPub)]

\* DigitalInputChange(pin, INPUT_PULLUP, CHANGE) -> debouncer -> lambda.
ButtonChange(c) ==
    LET v == ~raw[buttonPins[c]]
        out == DebounceSet(c, v)
    IN  /\ raw' = [raw EXCEPT ![buttonPins[c]] = v]
        /\ debounced' = IF out # <<>> THEN [debounced EXCEPT ![c] = v] ELSE debounced
        /\ win' = IF out # <<>> THEN [win EXCEPT ![c] = DebounceMs] ELSE win
        /\ timer' = IF out # <<>> THEN [timer EXCEPT ![c] = TRUE] ELSE timer
        /\ PressHandler(c, out)
        /\ RawHistory(c, v)
        /\ ClusterHistory(c, ~v, out)
        /\ ev' = [kind |-> "button", chan |-> c, out |-> out,
                  puts |-> HandlerPuts(c, out)]
        /\ UNCHANGED <<led, put_path, lastRemote>>

\* The window of channel c closes.  Whether the value delivered at the close
\* opens a window of its own is left open by spec.md: both are allowed.
Expire(c) ==
    /\ timer[c] /\ win[c] = 0
    /\ LET out == DebounceExpire(c)
       IN  /\ debounced' = IF out # <<>> THEN [debounced EXCEPT ![c] = out[1]]
                           ELSE debounced
           /\ \E reopen \in BOOLEAN :
                 /\ reopen => out # <<>>
                 /\ timer' = [timer EXCEPT ![c] = reopen]
                 /\ win' = [win EXCEPT ![c] = IF reopen THEN DebounceMs ELSE 0]
           /\ PressHandler(c, out)
           /\ ClusterHistory(c, FALSE, out)
           /\ ev' = [kind |-> "expire", chan |-> c, out |-> out,
                     puts |-> HandlerPuts(c, out)]
    /\ UNCHANGED <<raw, led, put_path, lastRemote, nRaw, age, burst, quiet,
                   spaced, sincePress, pressSpaced, odd>>

\* The delays the clock moves by: one tick, or a whole debounce period.
Delays == {TickMs, DebounceMs}

\* d ms pass with no event.  The event loop runs an expiry when it is due:
\* the clock moves on no further than the next one.
Advance(d) ==
    /\ \A c \in Relays : timer[c] => win[c] > 0 /\ (d > TickMs => win[c] >= d)
    /\ win' = [c \in Relays |-> Max(win[c] - d, 0)]
    /\ quiet' = [c \in Relays |-> Min(quiet[c] + d, DebounceMs)]
    /\ sincePress' = [c \in Relays |-> Min(sincePress[c] + d, DebounceMs)]
    /\ age' = [c \in Relays |-> IF nRaw[c] = 0 THEN 0 ELSE Min(age[c] + d, MaxAge)]
    /\ ev' = [kind |-> "advance", chan |-> 0, out |-> <<>>, puts |-> <<>>]
    /\ UNCHANGED <<raw, debounced, timer, prog, lastRemote, lastPut, nPub, nRaw,
                   burst, spaced, pressSpaced, odd, clusterTog>>

\* sk_value_listener -> LambdaConsumer: the server reports value v for the
\* path channel c listens on (an echo of a PUT, or any other writer).
RemoteUpdate(c, v) ==
    /\ led' = [led EXCEPT ![statusLEDPins[c]] = LedAfter(@, v)]
    /\ lastRemote' = [lastRemote EXCEPT ![c] = <<v>>]
    /\ ev' = [kind |-> "remote", chan |-> c, out |-> <<>>, puts |-> <<>>]
    /\ UNCHANGED <<hw, current_state, put_path, pending, lastPut, nPub, nRaw, age,
                   burst, quiet, spaced, sincePress, pressSpaced, odd, clusterTog>>

\* ConfigItem(sk_put_request): the put request's path is changed in the UI.
ConfigurePath(c, p) ==
    /\ p # put_path[c]
    /\ put_path' = [put_path EXCEPT ![c] = p]
    /\ ev' = [kind |-> "config", chan |-> c, out |-> <<>>, puts |-> <<>>]
    /\ UNCHANGED <<hw, current_state, led, pending, lastRemote, lastPut, nPub, nRaw,
                   age, burst, quiet, spaced, sincePress, pressSpaced, odd,
                   clusterTog>>

\* The fate of a PUT request: set() returns nothing and registers nothing,
\* so none of them reaches the channel.
PutOutcome(r, kind) ==
    /\ r \in pending
    /\ pending' = pending \ {r}
    /\ ev' = [kind |-> kind, chan |-> r.chan, out |-> <<>>, puts |-> <<>>]
    /\ UNCHANGED <<hw, current_state, led, put_path, lastRemote, lastPut, nPub,
                   nRaw, age, burst, quiet, spaced, sincePress, pressSpaced, odd,
                   clusterTog>>

PutApplied(r) == PutOutcome(r, "applied")
PutRejected(r) == PutOutcome(r, "rejected")
PutLost(r) == PutOutcome(r, "lost")

PutRecords == [chan : Relays, path : Paths, val : BOOLEAN]

\* -------------------------------------------------------- specifications
Budget == steps < MaxSteps /\ steps' = steps + 1

Step == Budget /\ UNCHANGED loopv

Next ==
    \/ \E c \in Relays : Step /\ ButtonChange(c)
    \/ \E c \in Relays : Step /\ Expire(c)
    \/ \E d \in Delays : Step /\ Advance(d)
    \/ \E c \in Relays, v \in BOOLEAN : Step /\ RemoteUpdate(c, v)
    \/ \E c \in Relays, p \in Paths : Step /\ ConfigurePath(c, p)
    \/ \E r \in PutRecords : Step /\ PutApplied(r)
    \/ \E r \in PutRecords : Step /\ PutRejected(r)
    \/ \E r \in PutRecords : Step /\ PutLost(r)

Spec == Init /\ [][Next]_vars

\* One button is operated, for any length of time.
Solo(c) == \A d \in Relays \ {c} : nRaw[d] = 0

NextButton ==
    \/ \E c \in Relays : Solo(c) /\ ButtonChange(c) /\ UNCHANGED <<steps, loopv>>
    \/ \E c \in Relays : Expire(c) /\ UNCHANGED <<steps, loopv>>
    \/ \E d \in Delays : Advance(d) /\ UNCHANGED <<steps, loopv>>

SpecButton == Init /\ [][NextButton]_vars

\* The remote system of C15: the server applies every PUT request and reports
\* the new value to the listener of the request's path, oldest request first,
\* losing none; nobody else writes.  At most MaxSteps button and
\* configuration events happen, then the user is quiet.
WireAfter(puts) ==
    [p \in Paths |-> wire[p] \o SelectSeq(puts, LAMBDA r : r.path = p)]

EchoButton(c) ==
    /\ Budget /\ Solo(c) /\ ButtonChange(c)
    /\ wire' = WireAfter(ev'.puts)
    /\ UNCHANGED running

EchoExpire(c) ==
    /\ Expire(c)
    /\ wire' = WireAfter(ev'.puts)
    /\ UNCHANGED <<steps, running>>

EchoAdvance(d) == Advance(d) /\ UNCHANGED <<steps, loopv>>

EchoConfigure(c, p) == Budget /\ ConfigurePath(c, p) /\ UNCHANGED loopv

EchoDeliver(p) ==
    /\ wire[p] # <<>>
    /\ \E c \in Relays : ListenPath(c) = p /\ RemoteUpdate(c, Head(wire[p]).val)
    /\ wire' = [wire EXCEPT ![p] = Tail(@)]
    /\ UNCHANGED <<steps, running>>

NextEcho ==
    \/ \E c \in Relays : EchoButton(c)
    \/ \E c \in Relays : EchoExpire(c)
    \/ \E d \in Delays : EchoAdvance(d)
    \/ \E c \in Relays, p \in Paths : EchoConfigure(c, p)
    \/ \E p \in Paths : EchoDeliver(p)

\* Every pending echo is delivered in the end.
SpecEcho ==
    Init /\ [][NextEcho]_vars /\ \A p \in Paths : WF_vars(EchoDeliver(p))

\* The event loop of C13: setup calls loop() in a while (true), loop() calls
\* tick(), and tick() runs one due callback to its end before the next.
Callbacks == [chan : Relays, h : {"button", "expire", "remote"}]

\* Mutant: callbacks are also entered from elsewhere (an interrupt, a task).
AnyTime == TRUE

LoopIdle == running = {}

Due(cb) == cb.h = "expire" => (timer[cb.chan] /\ win[cb.chan] = 0)

Enter(cb) ==
    /\ LoopIdle /\ Due(cb) /\ Budget
    /\ running' = running \cup {cb}
    /\ UNCHANGED <<hw, prog, hist, wire>>

Body(cb) ==
    CASE cb.h = "button" -> ButtonChange(cb.chan)
      [] cb.h = "expire" -> Expire(cb.chan)
      [] cb.h = "remote" -> \E v \in BOOLEAN : RemoteUpdate(cb.chan, v)

Return(cb) ==
    /\ cb \in running
    /\ Body(cb)
    /\ running' = running \ {cb}
    /\ UNCHANGED <<steps, wire>>

LoopAdvance(d) == Advance(d) /\ UNCHANGED <<steps, loopv>>

NextLoop ==
    \/ \E cb \in Callbacks : Enter(cb)
    \/ \E cb \in Callbacks : Return(cb)
    \/ \E d \in Delays : LoopAdvance(d)

SpecLoop == Init /\ [][NextLoop]_vars

\* ---------------------------------------------------------------- claims
Cur(c) == current_state[StateSlot(c)]
CurNext(c) == current_state'[StateSlot(c)]
PutsOf(e, c) == {k \in DOMAIN e.puts : e.puts[k].chan = c}
FromHandler(e) == e.kind \in {"button", "expire"}

\* C1 as stated: if every press comes at least 50 ms after the press before
\* (releases in between, at any time), then once the filter is at rest the
\* Local Toggle State is true exactly when the number of presses is odd.
C1_Original ==
    \A c \in Relays : (pressSpaced[c] /\ ~timer[c]) => (Cur(c) = odd[c])

\* C1 amended: if every raw transition, press or release, comes at least
\* 50 ms after the raw transition before, every press is accepted: the Local
\* Toggle State is true after an odd number of presses and false after an
\* even number.
C1_Alternates ==
    \A c \in Relays : spaced[c] => (Cur(c) = odd[c])

\* Two spaced presses with a release in between: true, then false again.
C1_Witness ==
    \E c \in Relays :
        /\ spaced[c] /\ nRaw[c] = 3 /\ ~odd[c]
        /\ nPub[c] = 2 /\ lastPut[c] = <<FALSE>> /\ ~Cur(c)

\* C2 as stated: in a cluster of presses, each less than 50 ms after the
\* press before, only the first press is accepted: the Local Toggle State
\* does not change a second time within the cluster.
C2_Original ==
    \A c \in Relays : clusterTog[c] <= 1

\* C2 amended: during the 50 ms window that an accepted press opens, and when
\* that window closes, nothing flips the Local Toggle State of the channel or
\* publishes for it: a cluster of presses that begins with an accepted press
\* and lies within 50 ms of it changes the state exactly once, at that press.
C2_OncePerWindow ==
    [][
        \A c \in Relays :
            (timer[c] /\ ~debounced[c]
             /\ (win[c] > 0 \/ (ev'.kind = "expire" /\ ev'.chan = c)))
            => (Cur(c)' = Cur(c) /\ PutsOf(ev', c) = {})
    ]_vars

\* A second press inside the window of the first, accepted one.
C2_Witness ==
    \E c \in Relays :
        /\ Suppressed(c) /\ ~debounced[c]
        /\ nRaw[c] = 3 /\ ~raw[buttonPins[c]]
        /\ nPub[c] = 1 /\ clusterTog[c] = 1 /\ Cur(c)

\* C3: a debounced true (release) delivered to the press handler changes no
\* Local Toggle State and issues no publish; a step that does either has
\* delivered a debounced false.
C3_ReleaseIgnored ==
    [][
        /\ ev'.out = <<TRUE>>
           => (current_state' = current_state /\ ev'.puts = <<>> /\ pending' = pending)
        /\ (current_state' # current_state \/ ev'.puts # <<>>)
           => ev'.out = <<FALSE>>
    ]_vars

\* A release is delivered on a channel that was toggled on before.
C3_Witness ==
    /\ FromHandler(ev) /\ ev.out = <<TRUE>>
    /\ Cur(ev.chan) /\ nPub[ev.chan] = 1

\* C4: once a channel has received a remote update, its LED equals the last
\* value received, whatever its Local Toggle State.
C4_LedMirrorsRemote ==
    \A c \in Relays :
        lastRemote[c] # <<>> => led[statusLEDPins[c]] = lastRemote[c][1]

\* The LED was switched off remotely while the local state is on.
C4_Witness ==
    \E c \in Relays :
        /\ ev.kind = "remote" /\ ev.chan = c
        /\ lastRemote[c] = <<FALSE>> /\ ~led[statusLEDPins[c]]
        /\ Cur(c) /\ nPub[c] = 1

\* What the claims call the state of channel c.
ChannelView(c) == <<Cur(c), led[statusLEDPins[c]], lastPut[c], nPub[c]>>

\* C5: an event of channel i (button change, debounce expiry, remote update,
\* the fate of one of its PUT requests) leaves the Local Toggle State, the
\* LED and the publishes of every other channel j unchanged.
C5_Independent ==
    [][\A j \in Relays :
          ev'.chan # j => (ChannelView(j)' = ChannelView(j) /\ PutsOf(ev', j) = {})]_vars

\* A press on one channel while another is on, with its LED lit.
C5_Witness ==
    \E i, j \in Relays :
        /\ i # j /\ ev.kind = "button" /\ ev.chan = i /\ ev.out = <<FALSE>>
        /\ Cur(i) /\ Cur(j) /\ led[statusLEDPins[j]]

\* C6: press, release, press within 30 ms from the initial state: exactly one
\* publish, of true, and the Local Toggle State is true.
C6_OnePublish ==
    \A c \in Relays :
        (nRaw[c] = 3 /\ burst[c])
        => (nPub[c] = 1 /\ lastPut[c] = <<TRUE>> /\ Cur(c) /\ clusterTog[c] = 1)

\* The scenario has run and its window has closed.
C6_Witness ==
    \E c \in Relays :
        /\ nRaw[c] = 3 /\ burst[c] /\ ~timer[c]
        /\ ~raw[buttonPins[c]] /\ quiet[c] >= DebounceMs

\* C7: a step that delivers a debounced false flips the Local Toggle State
\* and issues exactly one PUT request, to the put request's path, carrying the
\* state after the flip; so the last value published is the current state.
C7_PublishesNewState ==
    /\ [](\A c \in Relays : lastPut[c] # <<>> => lastPut[c][1] = Cur(c))
    /\ [][
          ev'.out = <<FALSE>>
          => (/\ CurNext(ev'.chan) = ~Cur(ev'.chan)
              /\ ev'.puts = <<[chan |-> ev'.chan, path |-> put_path[ev'.chan],
                               val |-> CurNext(ev'.chan)]>>
              /\ ev'.puts[1] \in pending')
       ]_vars

\* A press on a channel whose put path was reconfigured.
C7_Witness ==
    /\ FromHandler(ev) /\ ev.out = <<FALSE>>
    /\ put_path[ev.chan] # default_sk_paths[ev.chan]
    /\ lastPut[ev.chan] = <<TRUE>> /\ Cur(ev.chan)

\* C8: the Local Toggle State starts false; a remote update leaves every
\* Local Toggle State alone and publishes nothing; only a delivered press
\* changes a Local Toggle State; only a remote update changes an LED.
C8_Frames ==
    /\ \A c \in Relays : ~Cur(c)
    /\ [][
          /\ ev'.kind = "remote"
             => (current_state' = current_state /\ ev'.puts = <<>>
                 /\ pending' = pending)
          /\ current_state' # current_state
             => (FromHandler(ev') /\ ev'.out = <<FALSE>>)
          /\ led' # led => ev'.kind = "remote"
       ]_vars

\* A remote update switches the LED of a channel whose state is on (left so),
\* after a press that left the LED off.
C8_Witness ==
    \E c \in Relays :
        /\ ev.kind = "remote" /\ ev.chan = c /\ led[statusLEDPins[c]]
        /\ Cur(c) /\ nPub[c] = 1

\* C9 as stated: the listener of a channel is subscribed to the path its put
\* request publishes to.
C9_SamePath ==
    \A c \in Relays : put_path[c] = ListenPath(c)

\* C10: the fate of a PUT request (applied, rejected, lost) changes no Local
\* Toggle State, issues no request and leaves buttons, LEDs and paths as they
\* were; no step issues more than one request, and only a delivered press
\* issues one.
C10_FireAndForget ==
    [][
        /\ ev'.kind \in {"applied", "rejected", "lost"}
           => (/\ ev'.puts = <<>> /\ pending' \subseteq pending
               /\ UNCHANGED <<hw, current_state, led, put_path, lastPut, nPub>>)
        /\ Len(ev'.puts) <= 1
        /\ ev'.puts # <<>> => (FromHandler(ev') /\ ev'.out = <<FALSE>>)
    ]_vars

\* A request was lost; the toggle it announced stays.
C10_Witness ==
    /\ ev.kind = "lost" /\ pending = {}
    /\ Cur(ev.chan) /\ nPub[ev.chan] = 1 /\ lastPut[ev.chan] = <<TRUE>>

\* C11: a press accepted while the last remote value of the channel differs
\* from its Local Toggle State publishes that very value: it asks for what
\* the remote already reports.
C11_StalePress ==
    [][
        \A c \in Relays :
            (/\ FromHandler(ev') /\ ev'.chan = c /\ ev'.out = <<FALSE>>
             /\ lastRemote[c] # <<>> /\ lastRemote[c][1] # Cur(c))
            => (/\ ev'.puts # <<>>
                /\ \A k \in DOMAIN ev'.puts : ev'.puts[k].val = lastRemote[c][1]
                /\ lastRemote'[c] = lastRemote[c])
    ]_vars

\* The remote reported true while the local state was false; the press then
\* published true.
C11_Witness ==
    \E c \in Relays :
        /\ FromHandler(ev) /\ ev.chan = c /\ ev.out = <<FALSE>>
        /\ lastRemote[c] = <<TRUE>> /\ led[statusLEDPins[c]]
        /\ nPub[c] = 1 /\ lastPut[c] = <<TRUE>> /\ Cur(c)

\* C12: once 50 ms have passed since the last raw transition of a channel and
\* no expiry of its window is left to run, the value the filter delivered
\* last is the raw level of the button.
C12_LastStableWins ==
    \A c \in Relays :
        (nRaw[c] > 0 /\ quiet[c] >= DebounceMs /\ ~(timer[c] /\ win[c] = 0))
        => debounced[c] = raw[buttonPins[c]]

\* A release inside the window of the accepted press, delivered at its close.
C12_Witness ==
    \E c \in Relays :
        /\ nRaw[c] = 2 /\ ~spaced[c] /\ raw[buttonPins[c]] /\ debounced[c]
        /\ quiet[c] >= DebounceMs /\ ~timer[c] /\ Cur(c) /\ nPub[c] = 1

\* C13: no two callbacks of one channel are ever entered at once, and while
\* a callback of a channel is entered, the channel's Local Toggle State and
\* LED change only in the step in which that callback returns.
C13_OneAtATime ==
    /\ [](\A c \in Relays : Cardinality({cb \in running : cb.chan = c}) <= 1)
    /\ [][
          \A cb \in running :
              (\/ CurNext(cb.chan) # Cur(cb.chan)
               \/ led'[statusLEDPins[cb.chan]] # led[statusLEDPins[cb.chan]])
              => running' = running \ {cb}
       ]_vars

\* The remote-update callback of a channel is entered while an expiry of the
\* same channel is due and waits its turn.
C13_Witness ==
    \E c \in Relays :
        /\ [chan |-> c, h |-> "remote"] \in running
        /\ timer[c] /\ win[c] = 0 /\ Cur(c) /\ nPub[c] = 1

\* C14: in every reachable state every channel can take a further button
\* event and a further remote update of either value, a window expiry that
\* is due can run, and the clock can move on or an expiry is due: no state
\* is terminal and no handler waits.
C14_NeverBlocks ==
    /\ \A c \in Relays : ENABLED ButtonChange(c)
    /\ \A c \in Relays, v \in BOOLEAN : ENABLED RemoteUpdate(c, v)
    /\ \A c \in Relays : (timer[c] /\ win[c] = 0) => ENABLED Expire(c)
    /\ \/ \E d \in Delays : ENABLED Advance(d)
       \/ \E c \in Relays : ENABLED Expire(c)

\* A channel with two requests unanswered, its button held and an expiry due,
\* where another press would be accepted.
C14_Witness ==
    \E c \in Relays :
        /\ Cardinality({r \in pending : r.chan = c}) = 2
        /\ timer[c] /\ win[c] = 0 /\ raw[buttonPins[c]]
        /\ ENABLED ButtonChange(c) /\ ENABLED Expire(c)

\* C15 as stated: with every publish echoed in order and without loss, and no
\* other writer, in the end nothing is left to echo and the LED of every
\* channel that has published equals its Local Toggle State.
C15_EchoConverges ==
    <>[](/\ \A p \in Paths : wire[p] = <<>>
         /\ \A c \in Relays :
               lastPut[c] # <<>> => led[statusLEDPins[c]] = Cur(c))

\* What channel c holds.
ChanRec(c) == [cur |-> Cur(c), led |-> led[statusLEDPins[c]], pub |-> lastPut[c]]

\* C16: from what any channel holds in any reachable state, an accepted press
\* followed by a remote update v leaves the same Local Toggle State, LED and
\* published value as the remote update v followed by the press; and the
\* press and remote-update events of the channel are these two functions.
C16_Commute ==
    /\ [](\A c \in Relays, v \in BOOLEAN :
            RemoteStep(PressStep(c, ChanRec(c)), v)
            = PressStep(c, RemoteStep(ChanRec(c), v)))
    /\ [][
          \A c \in Relays :
              /\ (ev'.kind = "remote" /\ ev'.chan = c)
                 => ChanRec(c)' = RemoteStep(ChanRec(c), lastRemote'[c][1])
              /\ (FromHandler(ev') /\ ev'.chan = c /\ ev'.out = <<FALSE>>)
                 => ChanRec(c)' = PressStep(c, ChanRec(c))
       ]_vars

\* A press and a remote update have both acted on a channel, the update
\* last, and they left the LED and the Local Toggle State different.
C16_Witness ==
    \E c \in Relays :
        /\ ev.kind = "remote" /\ ev.chan = c
        /\ ChanRec(c) = [cur |-> TRUE, led |-> FALSE, pub |-> <<TRUE>>]
        /\ lastRemote[c] = <<FALSE>>

====
